---- MODULE Spec2Model ----
(***************************************************************************)
(* docx2pdf-rs: the stream writer (pdf_stream_writer.rs), the document     *)
(* builder (pdf_document.rs) and the document walker (parse_document_xml   *)
(* in main.rs), as one state machine.                                      *)
(*                                                                         *)
(* The sink is kept as the list of objects written to it, each with the    *)
(* id of its start marker "<id> 0 obj" and the byte offset at which that   *)
(* marker begins; byte lengths are computed from the format strings of the *)
(* source.  The XML reader is the environment: it hands the walker one     *)
(* event at a time, well nested (an End event closes the innermost open    *)
(* element), and may report an error at any point.                         *)
(***************************************************************************)
EXTENDS Integers, Sequences, FiniteSets, TLC

VARIABLES
    pdf_document,   \* PdfDocument { writer, pages_id, page_ids }
    walk,           \* the locals of parse_document_xml
    nread,          \* the number of events the reader has returned
    last,           \* the event the reader returned last
    open,           \* names of the elements open in the reader, innermost last
    input,          \* the documents the reader reads from: "any" | "two_images"
    pc,             \* "walk" | "walked" | "finished" | "error"
    failure,        \* what returned the error: "none" | "archive" | "builder" | "finish"
    output,         \* the xref section and trailer written by finish, or NoOutput
    images,         \* ImagePreprocessor::preprocess_images: archive, tasks, temp_dir, result
    api,            \* a PdfStreamWriter driven call by call, and what its calls returned
    text_call       \* one call of PdfDocument::new_text_obj: its text, the document after it

vars == <<pdf_document, walk, nread, last, open, input, pc, failure, output, images, api, text_call>>

\* The number of events read before end of input.
MaxEvents == 4

-----------------------------------------------------------------------------
(* Byte lengths *)

\* Number of decimal digits of n, as "{}" formats an unsigned integer.
RECURSIVE Digits(_)
Digits(n) == IF n < 10 THEN 1 ELSE 1 + Digits(n \div 10)

RECURSIVE SumDigits(_)
SumDigits(s) == IF s = <<>> THEN 0 ELSE Digits(Head(s)) + SumDigits(Tail(s))

Last(s) == s[Len(s)]

-----------------------------------------------------------------------------
(* Text *)

IsSpace(c) == c = " "

\* str::trim: leading and trailing whitespace removed.
RECURSIVE TrimStart(_)
TrimStart(s) ==
    IF s # <<>> /\ IsSpace(Head(s)) THEN TrimStart(Tail(s)) ELSE s

RECURSIVE TrimEnd(_)
TrimEnd(s) ==
    IF s # <<>> /\ IsSpace(Last(s)) THEN TrimEnd(SubSeq(s, 1, Len(s) - 1)) ELSE s

Trim(s) == TrimEnd(TrimStart(s))

\* str::replace(from, to) for a one-character pattern.
RECURSIVE Replace(_, _, _)
Replace(s, from, to) ==
    IF s = <<>> THEN <<>>
    ELSE (IF Head(s) = from THEN to ELSE <<Head(s)>>) \o Replace(Tail(s), from, to)

\* text.replace('(', "\\(").replace(')', "\\)")
EscapeParens(text) ==
    Replace(Replace(text, "(", <<"\\", "(">>), ")", <<"\\", ")">>)

-----------------------------------------------------------------------------
(* PdfStreamWriter *)

\* The body of an object as the builder composes it; the fields a kind does
\* not use keep these defaults.
Body ==
    [kind |-> "none", text |-> <<>>, parent |-> 0, contents |-> <<>>,
     xobjects |-> <<>>, count |-> 0, kids |-> <<>>, ref |-> 0, len |-> 0]

\* PdfStreamWriter::new: the header "%PDF-1.7\n" is written, no offsets, ids
\* start at 1.
WriterNew ==
    [sink |-> <<>>, offsets |-> <<>>, next_obj_id |-> 1, pos |-> 9]

\* reserve_object that hands out the next id without taking it.
reserve_object_NoAdvance(w) == [w |-> w, id |-> w.next_obj_id]

\* reserve_object: the id is taken, nothing is written and no offset recorded.
reserve_object(w) ==
    [w |-> [w EXCEPT !.next_obj_id = @ + 1], id |-> w.next_obj_id]

\* _new_object that issues the same id again.
_new_object_NoAdvance(w) ==
    LET id == w.next_obj_id
    IN  [w |-> [w EXCEPT !.offsets = Append(@, w.pos),
                         !.sink = Append(@, [id |-> id, off |-> w.pos, body |-> Body]),
                         !.pos = @ + Digits(id) + 7],
         id |-> id]

\* _new_object: the next id is taken, the position recorded, "<id> 0 obj\n"
\* written.
_new_object(w) ==
    LET id == w.next_obj_id
    IN  [w |-> [w EXCEPT !.next_obj_id = @ + 1,
                         !.offsets = Append(@, w.pos),
                         !.sink = Append(@, [id |-> id, off |-> w.pos, body |-> Body]),
                         !.pos = @ + Digits(id) + 7],
         id |-> id]

\* _finish_object: "\nendobj\n".
_finish_object(w) == [w EXCEPT !.pos = @ + 8]

\* The bytes of the reader copied to the sink, as the body of the object whose
\* start marker was written last.
CopyBody(w, body) ==
    [w EXCEPT !.sink[Len(w.sink)].body = body, !.pos = @ + body.len]

\* write_object: _new_object, the reader's bytes, _finish_object.
write_object(w, body) ==
    LET n == _new_object(w)
    IN  [w |-> _finish_object(CopyBody(n.w, body)), id |-> n.id]

\* write_object_with_reserved_id: the same framing under an id taken earlier.
write_object_with_reserved_id(w, id, body) ==
    LET marked == [w EXCEPT !.offsets = Append(@, w.pos),
                            !.sink = Append(@, [id |-> id, off |-> w.pos, body |-> Body]),
                            !.pos = @ + Digits(id) + 7]
    IN  _finish_object(CopyBody(marked, body))

\* finish with the free entry left out of the trailer's count.
finish_SizeWithoutFreeEntry(w, root_id) ==
    [xref |-> w.offsets,
     size |-> Len(w.offsets),
     root |-> root_id,
     startxref |-> w.pos]

\* finish: "xref", "0 <n+1>", the free entry, one in-use entry per recorded
\* offset in the order recorded, the trailer, startxref.
finish(w, root_id) ==
    [xref |-> w.offsets,
     size |-> Len(w.offsets) + 1,
     root |-> root_id,
     startxref |-> w.pos]

\* write_object returning an error: stream_position fails in _new_object (the
\* id is taken, nothing recorded), or a later write fails (the marker is
\* recorded, the body is not complete).
write_object_Err(w, at) ==
    IF at = "no_position" THEN [w EXCEPT !.next_obj_id = @ + 1] ELSE _new_object(w).w

\* write_object_with_reserved_id returning an error: stream_position fails, or
\* a later write fails.
write_object_with_reserved_id_Err(w, id, at) ==
    IF at = "no_position" THEN w
    ELSE [w EXCEPT !.offsets = Append(@, w.pos),
                   !.sink = Append(@, [id |-> id, off |-> w.pos, body |-> Body]),
                   !.pos = @ + Digits(id) + 7]

NoOutput == [xref |-> <<>>, size |-> 0, root |-> 0, startxref |-> 0]

-----------------------------------------------------------------------------
(* PdfDocument *)

\* PdfDocument::new: a writer, and the id reserved for /Pages.
DocumentNew ==
    LET r == reserve_object(WriterNew)
    IN  [writer |-> r.w, pages_id |-> r.id, page_ids |-> <<>>]

\* new_text_obj: "BT /F1 12 Tf 0 720 Td (<escaped>) Tj ET" in a stream object.
new_text_obj(d, text) ==
    LET escaped == EscapeParens(text)
        length  == 23 + Len(escaped) + 7
        body    == [Body EXCEPT !.kind = "text", !.text = escaped,
                                !.len = 15 + Digits(length) + 7 + length + 11]
        r       == write_object(d.writer, body)
    IN  [d |-> [d EXCEPT !.writer = r.w], id |-> r.id]

\* new_img_obj: the image XObject, then the content stream that draws it.
\* Returns (image_obj_id, content_stream_id).
new_img_obj(d, img) ==
    LET image   == [Body EXCEPT !.kind = "image",
                                !.len = 132 + Digits(img.w) + Digits(img.h)
                                        + Digits(img.len) + img.len + 10]
        r1      == write_object(d.writer, image)
        content == 30 + Digits(r1.id)
        draw    == [Body EXCEPT !.kind = "draw", !.ref = r1.id,
                                !.len = 32 + Digits(content) + content]
        r2      == write_object(r1.w, draw)
    IN  [d |-> [d EXCEPT !.writer = r2.w], ids |-> <<r1.id, r2.id>>]

\* The ids of a list of (image_obj_id, content_stream_id) pairs.
ImageIds(pairs) == [i \in 1..Len(pairs) |-> pairs[i][1]]
DrawIds(pairs) == [i \in 1..Len(pairs) |-> pairs[i][2]]

\* new_page_obj with the image content streams ahead of the text streams.
new_page_obj_DrawsFirst(d, current_page_objs, current_page_img_objs) ==
    LET all_content_streams == DrawIds(current_page_img_objs) \o current_page_objs
        xobject_entries     == ImageIds(current_page_img_objs)
        contents  == SumDigits(all_content_streams) + 4 * Len(all_content_streams)
                     + (IF all_content_streams = <<>> THEN 0
                        ELSE Len(all_content_streams) - 1)
        resources == IF xobject_entries # <<>>
                     THEN 26 + 3 + 2 * SumDigits(xobject_entries)
                          + 9 * Len(xobject_entries) + 2
                     ELSE 0
        body      == [Body EXCEPT !.kind = "page", !.parent = d.pages_id,
                                  !.contents = all_content_streams,
                                  !.xobjects = xobject_entries,
                                  !.len = 68 + Digits(d.pages_id) + resources + contents]
        r         == write_object(d.writer, body)
    IN  [d |-> [d EXCEPT !.writer = r.w, !.page_ids = Append(@, r.id)], id |-> r.id]

\* new_page_obj that does not record the id of the page it wrote.
new_page_obj_NotRecorded(d, current_page_objs, current_page_img_objs) ==
    LET all_content_streams == current_page_objs \o DrawIds(current_page_img_objs)
        xobject_entries     == ImageIds(current_page_img_objs)
        contents  == SumDigits(all_content_streams) + 4 * Len(all_content_streams)
                     + (IF all_content_streams = <<>> THEN 0
                        ELSE Len(all_content_streams) - 1)
        resources == IF xobject_entries # <<>>
                     THEN 26 + 3 + 2 * SumDigits(xobject_entries)
                          + 9 * Len(xobject_entries) + 2
                     ELSE 0
        body      == [Body EXCEPT !.kind = "page", !.parent = d.pages_id,
                                  !.contents = all_content_streams,
                                  !.xobjects = xobject_entries,
                                  !.len = 68 + Digits(d.pages_id) + resources + contents]
        r         == write_object(d.writer, body)
    IN  [d |-> [d EXCEPT !.writer = r.w], id |-> r.id]

\* new_page_obj: /Parent is the reserved pages id, /Contents the text streams
\* followed by the image content streams, /Resources one /Im<id> per image.
new_page_obj(d, current_page_objs, current_page_img_objs) ==
    LET all_content_streams == current_page_objs \o DrawIds(current_page_img_objs)
        xobject_entries     == ImageIds(current_page_img_objs)
        contents  == SumDigits(all_content_streams) + 4 * Len(all_content_streams)
                     + (IF all_content_streams = <<>> THEN 0
                        ELSE Len(all_content_streams) - 1)
        resources == IF xobject_entries # <<>>
                     THEN 26 + 3 + 2 * SumDigits(xobject_entries)
                          + 9 * Len(xobject_entries) + 2
                     ELSE 0
        body      == [Body EXCEPT !.kind = "page", !.parent = d.pages_id,
                                  !.contents = all_content_streams,
                                  !.xobjects = xobject_entries,
                                  !.len = 68 + Digits(d.pages_id) + resources + contents]
        r         == write_object(d.writer, body)
    IN  [d |-> [d EXCEPT !.writer = r.w, !.page_ids = Append(@, r.id)], id |-> r.id]

\* finish_document: the /Pages object, the /Catalog object, then the writer's
\* finish with the catalog as root.  The assertion on pages_id panics.
finish_document(d) ==
    LET pages   == [Body EXCEPT !.kind = "pages", !.count = Len(d.page_ids),
                                !.kids = d.page_ids,
                                !.len = 35 + Digits(Len(d.page_ids))
                                        + SumDigits(d.page_ids) + 5 * Len(d.page_ids)]
        r1      == write_object(d.writer, pages)
        catalog == [Body EXCEPT !.kind = "catalog", !.ref = r1.id,
                                !.len = 32 + Digits(r1.id)]
        r2      == write_object(r1.w, catalog)
    IN  IF d.pages_id # 1
        THEN [d |-> d, out |-> NoOutput, panic |-> TRUE]
        ELSE [d |-> [d EXCEPT !.writer = r2.w], out |-> finish(r2.w, r2.id),
              panic |-> FALSE]

-----------------------------------------------------------------------------
(* The reader's events and the walker's environment *)

NoAttr == ""

Ev(type, name, attr, text) ==
    [type |-> type, name |-> name, attr |-> attr, text |-> text]

\* The relationship ids of the blips; rId9 has no relationship.
Rids == {"rId4", "rId5", "rId9"}

\* media_lookup: the path of the transcoded image of a relationship id, or
\* NoPath when the relationship map or the image map has no entry.
NoPath == "none"
media_lookup(rid) ==
    CASE rid = "rId4" -> "a.jpg"
      [] rid = "rId5" -> "b.jpg"
      [] OTHER -> NoPath

\* The image behind a path: pixel width, pixel height, byte length.
ImageFile(path) ==
    IF path = "a.jpg" THEN [w |-> 8, h |-> 6, len |-> 40]
    ELSE [w |-> 120, h |-> 90, len |-> 7]

TextEvents == {Ev("Text", "", NoAttr, t) : t \in {<<"a">>, <<" ">>}}

StartEvents ==
    {Ev("Start", n, NoAttr, <<>>) : n \in {"w:p", "w:sectPr", "w:drawing", "wp:inline"}}
    \cup {Ev("Start", "w:br", "page", <<>>)}
    \cup {Ev("Start", "a:blip", rid, <<>>) : rid \in Rids}

EmptyEvents ==
    {Ev("Empty", "w:sectPr", NoAttr, <<>>), Ev("Empty", "w:br", "page", <<>>)}
    \cup {Ev("Empty", "a:blip", rid, <<>>) : rid \in Rids}

EndEvent(name) == Ev("End", name, NoAttr, <<>>)

ErrEvent == Ev("Err", "", NoAttr, <<>>)

EofEvent == Ev("Eof", "", NoAttr, <<>>)

\* The events the reader can return next from any document: an End event
\* closes the innermost open element.
NextEvents(opened) ==
    TextEvents \cup StartEvents \cup EmptyEvents \cup {ErrEvent, EofEvent}
    \cup (IF opened = <<>> THEN {} ELSE {EndEvent(Last(opened))})

\* The page break <w:br w:type="page">, self-closing or paired.
PageBreakEvents == {Ev(t, "w:br", "page", <<>>) : t \in {"Start", "Empty"}}

\* The image reference of a relationship id, self-closing or paired.
BlipEvents(rid) == {Ev(t, "a:blip", rid, <<>>) : t \in {"Start", "Empty"}}

\* The events the reader can return next from a document whose body is the
\* image reference rId4, a page break, the image reference rId5, in this
\* order, between paragraph and drawing elements without text.  `refs` are the
\* references and `breaks` the number of page breaks returned so far.
TwoImageEvents(opened, refs, breaks) ==
    {Ev("Text", "", NoAttr, <<" ">>), ErrEvent}
    \cup {Ev("Start", n, NoAttr, <<>>) : n \in {"w:p", "w:drawing", "wp:inline"}}
    \cup (IF opened = <<>> THEN {} ELSE {EndEvent(Last(opened))})
    \cup (CASE refs = {} -> BlipEvents("rId4")
            [] refs = {"rId4"} /\ breaks = 0 -> PageBreakEvents
            [] refs = {"rId4"} /\ breaks = 1 -> BlipEvents("rId5")
            [] OTHER -> {EofEvent})

\* The reader's element stack after an event.
Opened(opened, ev) ==
    CASE ev.type = "Start" -> Append(opened, ev.name)
      [] ev.type = "End" -> SubSeq(opened, 1, Len(opened) - 1)
      [] OTHER -> opened

\* What the archive and the builder do in a step: both succeed, the builder
\* call returns an error, or archive.by_name cannot open the image.
IoOutcomes == {"ok", "fail", "unreadable"}

-----------------------------------------------------------------------------
(* parse_document_xml *)

\* The locals at the top of the loop.
WalkNew ==
    [current_text |-> <<>>, in_drawing |-> FALSE, seen_rid |-> {},
     current_page_objs |-> <<>>, current_page_img_objs |-> <<>>]

\* A walk in progress: the document, the locals, and whether a `?` returned.
St(d, w, err) == [d |-> d, w |-> w, err |-> err, cause |-> "none"]

\* The `?` after a builder call that returned an error.
Failed(st) == [st EXCEPT !.err = TRUE, !.cause = "builder"]

\* The `?` after archive.by_name that returned an error.
Unreadable(st) == [st EXCEPT !.err = TRUE, !.cause = "archive"]

IsDrawingName(name) == name \in {"w:drawing", "wp:inline", "wp:extent"}

EndsWithBlip(name) == name \in {"a:blip", "pic:blip", "blip"}

\* The arm of the match that takes an event, in the order of the arms.
Arm(w, ev) ==
    CASE ev.type = "Eof" -> "eof"
      [] ev.type = "Text" /\ ~w.in_drawing -> "text"
      [] ev.type = "End" /\ ev.name = "w:p" -> "paragraph_end"
      [] ev.type = "Start" -> "start"
      [] ev.type = "End" -> "end"
      [] ev.type = "Empty" -> "empty"
      [] OTHER -> "other"

\* Event::Text: the token and a separator space are appended.
TextArm(st, ev) ==
    [st EXCEPT !.w.current_text = @ \o ev.text \o <<" ">>]

\* The paragraph end with the emptiness test made on the untrimmed text.
ParagraphEndArm_Untrimmed(st, io) ==
    IF st.w.current_text # <<>>
    THEN IF io = "fail" THEN Failed(st)
         ELSE LET r == new_text_obj(st.d, Trim(st.w.current_text))
              IN  [st EXCEPT !.d = r.d,
                             !.w.current_page_objs = Append(@, r.id),
                             !.w.current_text = <<>>]
    ELSE [st EXCEPT !.w.current_text = <<>>]

\* Event::End of w:p: a text object for the trimmed text if it is not empty,
\* then the text is cleared.
ParagraphEndArm(st, io) ==
    IF Trim(st.w.current_text) # <<>>
    THEN IF io = "fail" THEN Failed(st)
         ELSE LET r == new_text_obj(st.d, Trim(st.w.current_text))
              IN  [st EXCEPT !.d = r.d,
                             !.w.current_page_objs = Append(@, r.id),
                             !.w.current_text = <<>>]
    ELSE [st EXCEPT !.w.current_text = <<>>]

\* The page break with the pending image list left uncleared.
PageBreak_KeepsImages(st, io) ==
    IF io = "fail" THEN Failed(st)
    ELSE LET r == new_page_obj(st.d, st.w.current_page_objs, st.w.current_page_img_objs)
         IN  [st EXCEPT !.d = r.d, !.w.current_page_objs = <<>>]

\* The page break that first turns the text read so far into a text object of
\* the page it closes.
PageBreak_FlushesText(st, io) ==
    IF io = "fail" THEN Failed(st)
    ELSE LET t  == IF Trim(st.w.current_text) # <<>>
                   THEN new_text_obj(st.d, Trim(st.w.current_text))
                   ELSE [d |-> st.d, id |-> 0]
             objs == IF Trim(st.w.current_text) # <<>>
                     THEN Append(st.w.current_page_objs, t.id)
                     ELSE st.w.current_page_objs
             r  == new_page_obj(t.d, objs, st.w.current_page_img_objs)
         IN  [st EXCEPT !.d = r.d,
                        !.w.current_text = <<>>,
                        !.w.current_page_objs = <<>>,
                        !.w.current_page_img_objs = <<>>]

\* A page object from the pending lists, which are then cleared.
PageBreak(st, io) ==
    IF io = "fail" THEN Failed(st)
    ELSE LET r == new_page_obj(st.d, st.w.current_page_objs, st.w.current_page_img_objs)
         IN  [st EXCEPT !.d = r.d,
                        !.w.current_page_objs = <<>>,
                        !.w.current_page_img_objs = <<>>]

\* The blip that marks an id seen only when the id resolves to an image.
Blip_SeenOnlyWhenMapped(st, rid, io) ==
    IF rid \in st.w.seen_rid THEN st
    ELSE IF media_lookup(rid) # NoPath
         THEN IF io = "unreadable" THEN Unreadable(st)
              ELSE IF io = "fail" THEN Failed(st)
              ELSE LET r == new_img_obj(st.d, ImageFile(media_lookup(rid)))
                   IN  [st EXCEPT !.d = r.d,
                                  !.w.current_page_img_objs = Append(@, r.ids),
                                  !.w.seen_rid = @ \cup {rid}]
         ELSE st

\* A blip with an embed attribute: resolved once per relationship id.
Blip(st, rid, io) ==
    IF rid \in st.w.seen_rid THEN st
    ELSE IF media_lookup(rid) # NoPath
         THEN IF io = "unreadable" THEN Unreadable(st)
              ELSE IF io = "fail" THEN Failed(st)
              ELSE LET r == new_img_obj(st.d, ImageFile(media_lookup(rid)))
                   IN  [st EXCEPT !.d = r.d,
                                  !.w.current_page_img_objs = Append(@, r.ids),
                                  !.w.seen_rid = @ \cup {rid}]
         ELSE [st EXCEPT !.w.seen_rid = @ \cup {rid}]

\* Event::Start: page break, section break, drawing, blip, in this order.
StartArm(st, ev, io) ==
    LET s1 == IF ev.name = "w:br" /\ ev.attr = "page" THEN PageBreak(st, io) ELSE st
        s2 == IF s1.err THEN s1
              ELSE IF ev.name = "w:sectPr" THEN PageBreak(s1, io) ELSE s1
        s3 == IF s2.err THEN s2
              ELSE IF IsDrawingName(ev.name) THEN [s2 EXCEPT !.w.in_drawing = TRUE]
              ELSE s2
    IN  IF s3.err THEN s3
        ELSE IF EndsWithBlip(ev.name) /\ ev.attr # NoAttr THEN Blip(s3, ev.attr, io)
        ELSE s3

\* Event::End of any other element.
EndArm(st, ev) ==
    IF IsDrawingName(ev.name) THEN [st EXCEPT !.w.in_drawing = FALSE] ELSE st

\* Event::Empty: page break, blip.
EmptyArm(st, ev, io) ==
    LET s1 == IF ev.name = "w:br" /\ ev.attr = "page" THEN PageBreak(st, io) ELSE st
    IN  IF s1.err THEN s1
        ELSE IF EndsWithBlip(ev.name) /\ ev.attr # NoAttr THEN Blip(s1, ev.attr, io)
        ELSE s1

\* The end of the loop without the page object for the pending lists.
EofArm_NoFlush(st, io) ==
    IF io = "fail" THEN Failed(st) ELSE st

\* After the loop: a page object from the pending lists.
EofArm(st, io) ==
    IF io = "fail" THEN Failed(st)
    ELSE [st EXCEPT !.d = new_page_obj(st.d, st.w.current_page_objs,
                                        st.w.current_page_img_objs).d]

\* One turn of the loop.
Step(st, ev, io) ==
    LET arm == Arm(st.w, ev)
    IN  CASE arm = "text" -> TextArm(st, ev)
          [] arm = "paragraph_end" -> ParagraphEndArm(st, io)
          [] arm = "start" -> StartArm(st, ev, io)
          [] arm = "end" -> EndArm(st, ev)
          [] arm = "empty" -> EmptyArm(st, ev, io)
          [] arm = "eof" -> EofArm(st, io)
          [] OTHER -> st

-----------------------------------------------------------------------------
(* ImagePreprocessor *)

\* An archive entry name: directory, file stem, extension.
Entry(dir, stem, ext) == [dir |-> dir, stem |-> stem, ext |-> ext]

\* The entries an archive can hold.
ArchiveEntries ==
    {Entry("word/media/", "a", "png"), Entry("word/media/", "a", "jpg"),
     Entry("word/media/", "b", "gif"), Entry("word/", "document", "xml")}

\* name.starts_with("word/media/") and one of the five extensions.
IsImageEntry(e) ==
    /\ e.dir = "word/media/"
    /\ e.ext \in {"png", "bmp", "gif", "jpeg", "jpg"}

\* original_path.ends_with(".jpg") || original_path.ends_with(".jpeg")
IsJpegEntry(e) == e.ext \in {"jpg", "jpeg"}

\* The temp file of an entry: the prefix "word/media/" stripped, the extension
\* replaced by "jpg", joined to the temp directory.
TempPath(e) ==
    LET filename == IF e.dir = "word/media/" THEN Entry("", e.stem, e.ext) ELSE e
    IN  [filename EXCEPT !.ext = "jpg"]

NoFile == [owner |-> Entry("", "", ""), complete |-> FALSE]

\* No run of the preprocessor.
NoImages ==
    [archive |-> {}, tasks |-> <<>>, temp |-> <<>>, result |-> "idle", image_map |-> {}]

\* preprocess_images after step 1: one task per image entry, an empty temp
\* directory.
ImagesNew(archive) ==
    LET image_entries == {e \in archive : IsImageEntry(e)}
    IN  [archive |-> archive,
         tasks |-> [e \in image_entries |-> "todo"],
         temp |-> [f \in {TempPath(e) : e \in image_entries} |-> NoFile],
         result |-> "running",
         image_map |-> {}]

\* A task moves to `to`, or returns its error.
TaskTo(im, e, to, ok) == [im EXCEPT !.tasks[e] = IF ok THEN to ELSE "failed"]

\* ZipArchive::new and archive.by_index in the task's closure.
task_open(im, e, ok) == TaskTo(im, e, "opened", ok)

\* File::create(&temp_path) of a JPEG entry: the file exists and is empty.
task_create(im, e, ok) ==
    IF ok
    THEN [im EXCEPT !.tasks[e] = "created",
                    !.temp[TempPath(e)] = [owner |-> e, complete |-> FALSE]]
    ELSE TaskTo(im, e, "failed", FALSE)

\* std::io::copy of a JPEG entry into its temp file.
task_copy(im, e, ok) ==
    IF ok
    THEN [im EXCEPT !.tasks[e] = "done",
                    !.temp[TempPath(e)] = [owner |-> e, complete |-> TRUE]]
    ELSE TaskTo(im, e, "failed", FALSE)

\* read_to_end, image::load_from_memory and the TurboJPEG compression.
task_encode(im, e, ok) == TaskTo(im, e, "encoded", ok)

\* std::fs::write(&temp_path, jpeg_data)
task_write(im, e, ok) ==
    IF ok
    THEN [im EXCEPT !.tasks[e] = "done",
                    !.temp[TempPath(e)] = [owner |-> e, complete |-> TRUE]]
    ELSE TaskTo(im, e, "failed", FALSE)

\* collect::<Result<HashMap<_, _>>>()?: the error of a failed task, else the
\* map of every entry to its temp path.
collect(im) ==
    IF \E e \in DOMAIN im.tasks : im.tasks[e] = "failed"
    THEN [im EXCEPT !.result = "err"]
    ELSE [im EXCEPT !.result = "ok",
                    !.image_map = {<<e, TempPath(e)>> : e \in DOMAIN im.tasks}]

-----------------------------------------------------------------------------
(* A caller of PdfStreamWriter *)

\* The id-issuing calls (reserve_object, write_object) a caller makes.
MaxCalls == 3

\* The bodies a caller writes.
Bodies == {[Body EXCEPT !.kind = "text", !.text = <<"a">>, !.len = 1],
           [Body EXCEPT !.kind = "image", !.len = 12]}

\* How a call that writes to the sink ends.
CallOutcomes == {"ok", "no_position", "no_body"}

NoApi ==
    [w |-> WriterNew, calls |-> 0, returned |-> <<>>, reserved |-> {},
     done |-> FALSE, out |-> NoOutput]

-----------------------------------------------------------------------------
(* A caller of PdfDocument::new_text_obj *)

\* The longest text passed to new_text_obj.
MaxText == 4

\* The characters of a text: a letter, the parentheses, the backslash.
Chars == {"a", "(", ")", "\\"}

Texts == UNION {[1..n -> Chars] : n \in 0..MaxText}

\* No call of new_text_obj.
NoTextCall == [text |-> <<>>, d |-> DocumentNew, result |-> "none"]

\* The string literal of a text stream: "(" the escaped text ")" of
\* "BT /F1 12 Tf 0 720 Td ({}) Tj ET".
Literal(body) == <<"(">> \o body.text \o <<")">>

\* The positions of a literal string, from position i on, that a preceding
\* backslash escapes: a backslash takes the character after it.
RECURSIVE EscapedFrom(_, _)
EscapedFrom(s, i) ==
    IF i > Len(s) THEN {}
    ELSE IF s[i] = "\\" THEN {i + 1} \cup EscapedFrom(s, i + 2)
    ELSE EscapedFrom(s, i + 1)

\* The positions of the unescaped occurrences of a character in a literal
\* that opens at position 1.
Unescaped(s, c) == {i \in DOMAIN s : s[i] = c} \ EscapedFrom(s, 2)

-----------------------------------------------------------------------------
(* The state machine *)

Cur == St(pdf_document, walk, FALSE)

Init ==
    /\ pdf_document = DocumentNew
    /\ walk = WalkNew
    /\ nread = 0
    /\ last = Ev("None", "", NoAttr, <<>>)
    /\ open = <<>>
    /\ input = "any"
    /\ pc = "walk"
    /\ failure = "none"
    /\ output = NoOutput
    /\ images = NoImages
    /\ api = NoApi
    /\ text_call = NoTextCall

\* The same program reading the two-image document.
InitTwoImages ==
    /\ pdf_document = DocumentNew
    /\ walk = WalkNew
    /\ nread = 0
    /\ last = Ev("None", "", NoAttr, <<>>)
    /\ open = <<>>
    /\ input = "two_images"
    /\ pc = "walk"
    /\ failure = "none"
    /\ output = NoOutput
    /\ images = NoImages
    /\ api = NoApi
    /\ text_call = NoTextCall

\* The loop reads `ev` and the arm leaves `st`.
Turn(ev, st) ==
    /\ nread' = nread + 1
    /\ last' = ev
    /\ open' = Opened(open, ev)
    /\ UNCHANGED <<input, output, images, api, text_call>>
    /\ IF st.err
       THEN pc' = "error" /\ failure' = st.cause /\ UNCHANGED <<pdf_document, walk>>
       ELSE pc' = pc /\ failure' = failure /\ pdf_document' = st.d /\ walk' = st.w

\* The events the reader can return next.  Every reference and every page
\* break of the two-image document is seen by the walker, so the sets below
\* are the references and the breaks read.
Readable ==
    IF input = "two_images"
    THEN TwoImageEvents(open, walk.seen_rid, Len(pdf_document.page_ids))
    ELSE NextEvents(open)

Reading(ev, arm) ==
    /\ pc = "walk"
    /\ nread < MaxEvents
    /\ ev \in Readable
    /\ Arm(walk, ev) = arm

ReadText ==
    \E ev \in TextEvents :
        /\ Reading(ev, "text")
        /\ Turn(ev, TextArm(Cur, ev))

ReadParagraphEnd ==
    \E io \in IoOutcomes :
        /\ open # <<>>
        /\ Reading(EndEvent(Last(open)), "paragraph_end")
        /\ Turn(EndEvent(Last(open)), ParagraphEndArm(Cur, io))

ReadStart ==
    \E ev \in StartEvents, io \in IoOutcomes :
        /\ Reading(ev, "start")
        /\ Turn(ev, StartArm(Cur, ev, io))

ReadEnd ==
    /\ open # <<>>
    /\ Reading(EndEvent(Last(open)), "end")
    /\ Turn(EndEvent(Last(open)), EndArm(Cur, EndEvent(Last(open))))

ReadEmpty ==
    \E ev \in EmptyEvents, io \in IoOutcomes :
        /\ Reading(ev, "empty")
        /\ Turn(ev, EmptyArm(Cur, ev, io))

\* The catch-all arm: a reader error, or text inside a drawing.
ReadOther ==
    \E ev \in TextEvents \cup {ErrEvent} :
        /\ Reading(ev, "other")
        /\ Turn(ev, Cur)

\* End of input: the loop is left and the remaining objects are written.
ReadEof ==
    \E io \in IoOutcomes :
        /\ pc = "walk"
        /\ EofEvent \in Readable
        /\ LET st == EofArm(Cur, io)
           IN  /\ last' = EofEvent
               /\ IF st.err
                  THEN pc' = "error" /\ failure' = st.cause /\ UNCHANGED pdf_document
                  ELSE pc' = "walked" /\ failure' = failure /\ pdf_document' = st.d
        /\ UNCHANGED <<walk, nread, open, input, output, images, api, text_call>>

\* finish_document callable again on a document that was finished.
FinishDocument_Repeatable ==
    \E io \in IoOutcomes :
        /\ pc \in {"walked", "finished"}
        /\ LET r == finish_document(pdf_document)
           IN  IF io = "fail" \/ r.panic
               THEN pc' = "error" /\ failure' = "finish"
                    /\ UNCHANGED <<pdf_document, output>>
               ELSE pc' = "finished" /\ failure' = failure
                    /\ pdf_document' = r.d /\ output' = r.out
        /\ UNCHANGED <<walk, nread, last, open, input, images, api, text_call>>

\* pdf_document.finish_document()
FinishDocument ==
    \E io \in IoOutcomes :
        /\ pc = "walked"
        /\ LET r == finish_document(pdf_document)
           IN  IF io = "fail" \/ r.panic
               THEN pc' = "error" /\ failure' = "finish"
                    /\ UNCHANGED <<pdf_document, output>>
               ELSE pc' = "finished" /\ failure' = failure
                    /\ pdf_document' = r.d /\ output' = r.out
        /\ UNCHANGED <<walk, nread, last, open, input, images, api, text_call>>

Next ==
    \/ ReadText
    \/ ReadParagraphEnd
    \/ ReadStart
    \/ ReadEnd
    \/ ReadEmpty
    \/ ReadOther
    \/ ReadEof
    \/ FinishDocument

\* The preprocessor started on an archive, the document not yet walked.
InitImages ==
    /\ pdf_document = DocumentNew
    /\ walk = WalkNew
    /\ nread = 0
    /\ last = Ev("None", "", NoAttr, <<>>)
    /\ open = <<>>
    /\ input = "any"
    /\ pc = "walk"
    /\ failure = "none"
    /\ output = NoOutput
    /\ \E archive \in SUBSET ArchiveEntries : images = ImagesNew(archive)
    /\ api = NoApi
    /\ text_call = NoTextCall

Program == <<pdf_document, walk, nread, last, open, input, pc, failure, output>>

\* A step of the task of entry `e` that is at `at`.
TaskStep(e, at) ==
    /\ images.result = "running"
    /\ e \in DOMAIN images.tasks
    /\ images.tasks[e] = at
    /\ UNCHANGED <<Program, api, text_call>>

TaskOpen ==
    \E e \in ArchiveEntries, ok \in BOOLEAN :
        /\ TaskStep(e, "todo")
        /\ images' = task_open(images, e, ok)

TaskCreate ==
    \E e \in ArchiveEntries, ok \in BOOLEAN :
        /\ TaskStep(e, "opened")
        /\ IsJpegEntry(e)
        /\ images' = task_create(images, e, ok)

TaskCopy ==
    \E e \in ArchiveEntries, ok \in BOOLEAN :
        /\ TaskStep(e, "created")
        /\ images' = task_copy(images, e, ok)

TaskEncode ==
    \E e \in ArchiveEntries, ok \in BOOLEAN :
        /\ TaskStep(e, "opened")
        /\ ~IsJpegEntry(e)
        /\ images' = task_encode(images, e, ok)

TaskWrite ==
    \E e \in ArchiveEntries, ok \in BOOLEAN :
        /\ TaskStep(e, "encoded")
        /\ images' = task_write(images, e, ok)

\* The parallel iterator is collected once no task is running: every task has
\* ended, or one has failed and the tasks not yet started are dropped.
Collect ==
    /\ images.result = "running"
    /\ \A e \in DOMAIN images.tasks : images.tasks[e] \in {"todo", "done", "failed"}
    /\ \/ \A e \in DOMAIN images.tasks : images.tasks[e] # "todo"
       \/ \E e \in DOMAIN images.tasks : images.tasks[e] = "failed"
    /\ images' = collect(images)
    /\ UNCHANGED <<Program, api, text_call>>

NextImages ==
    \/ TaskOpen
    \/ TaskCreate
    \/ TaskCopy
    \/ TaskEncode
    \/ TaskWrite
    \/ Collect

SpecImages == InitImages /\ [][NextImages]_vars

\* A call on the writer `api.w`, which finish has not consumed.
Call ==
    /\ ~api.done
    /\ UNCHANGED <<Program, images, text_call>>

\* The k-th id-issuing call returned `id`.
Returned(op, id) ==
    Append(api.returned, [call |-> api.calls + 1, op |-> op, id |-> id])

CallReserveObject ==
    /\ Call
    /\ api.calls < MaxCalls
    /\ LET r == reserve_object(api.w)
       IN  api' = [api EXCEPT !.w = r.w, !.calls = @ + 1,
                              !.returned = Returned("reserve_object", r.id),
                              !.reserved = @ \cup {r.id}]

CallWriteObject ==
    \E body \in Bodies, how \in CallOutcomes :
        /\ Call
        /\ api.calls < MaxCalls
        /\ LET r == write_object(api.w, body)
           IN  api' = IF how = "ok"
                      THEN [api EXCEPT !.w = r.w, !.calls = @ + 1,
                                       !.returned = Returned("write_object", r.id)]
                      ELSE [api EXCEPT !.w = write_object_Err(api.w, how),
                                       !.calls = @ + 1]

\* The caller writes the body of an id it reserved.
CallWriteObjectWithReservedId ==
    \E id \in api.reserved, body \in Bodies, how \in CallOutcomes :
        /\ Call
        /\ api' = [api EXCEPT
                       !.w = IF how = "ok"
                             THEN write_object_with_reserved_id(api.w, id, body)
                             ELSE write_object_with_reserved_id_Err(api.w, id, how),
                       !.reserved = @ \ {id}]

\* finish(mut self, root_id): the writer is consumed.
CallFinish ==
    \E i \in DOMAIN api.returned, ok \in BOOLEAN :
        /\ Call
        /\ api' = [api EXCEPT !.done = TRUE,
                              !.out = IF ok THEN finish(api.w, api.returned[i].id)
                                      ELSE NoOutput]

InitWriter ==
    /\ pdf_document = DocumentNew
    /\ walk = WalkNew
    /\ nread = 0
    /\ last = Ev("None", "", NoAttr, <<>>)
    /\ open = <<>>
    /\ input = "any"
    /\ pc = "walk"
    /\ failure = "none"
    /\ output = NoOutput
    /\ images = NoImages
    /\ api = NoApi
    /\ text_call = NoTextCall

NextWriter ==
    \/ CallReserveObject
    \/ CallWriteObject
    \/ CallWriteObjectWithReservedId
    \/ CallFinish

SpecWriter == InitWriter /\ [][NextWriter]_vars

\* A fresh document and a text to write to it.
InitText ==
    /\ pdf_document = DocumentNew
    /\ walk = WalkNew
    /\ nread = 0
    /\ last = Ev("None", "", NoAttr, <<>>)
    /\ open = <<>>
    /\ input = "any"
    /\ pc = "walk"
    /\ failure = "none"
    /\ output = NoOutput
    /\ images = NoImages
    /\ api = NoApi
    /\ \E text \in Texts : text_call = [NoTextCall EXCEPT !.text = text]

\* pdf_document.new_text_obj(text)
CallNewTextObj ==
    \E ok \in BOOLEAN :
        /\ text_call.result = "none"
        /\ text_call' = IF ok
                        THEN [text_call EXCEPT
                                  !.d = new_text_obj(text_call.d, text_call.text).d,
                                  !.result = "ok"]
                        ELSE [text_call EXCEPT !.result = "err"]
        /\ UNCHANGED <<Program, images, api>>

NextText == CallNewTextObj

SpecText == InitText /\ [][NextText]_vars

Spec == Init /\ [][Next]_vars

SpecTwoImages == InitTwoImages /\ [][Next]_vars

-----------------------------------------------------------------------------
(* The finished output *)

Writer == pdf_document.writer

Sink == Writer.sink

\* The ids issued so far, by reserve_object and by _new_object.
IssuedIds == 1..(Writer.next_obj_id - 1)

\* The offsets at which the start marker "<k> 0 obj" was written.
MarkerOffsets(k) == {Sink[i].off : i \in {j \in DOMAIN Sink : Sink[j].id = k}}

\* The objects of a kind, as indices into the sink.
ObjectsOf(kind) == {i \in DOMAIN Sink : Sink[i].body.kind = kind}

\* C1: in a finished output, with N the highest issued id, the k-th in-use
\* entry of the cross-reference table holds, for every k in 1..N, the offset at
\* which the start marker of object k was written.
C1_XrefEntryIsMarkerOffset ==
    pc = "finished" =>
        \A k \in IssuedIds :
            /\ k <= Len(output.xref)
            /\ output.xref[k] \in MarkerOffsets(k)

\* C2: when the writer finishes, the number of offset entries equals the
\* number of ids issued.
C2_OneOffsetPerIssuedId ==
    pc = "finished" => Len(Writer.offsets) = Cardinality(IssuedIds)

\* C3: the id reserved by PdfDocument::new is written exactly once before the
\* writer finishes, the pages root is the object written under it, and it is
\* the parent every page names.
C3_PagesRootInReservedId ==
    pc = "finished" =>
        /\ Cardinality({i \in DOMAIN Sink : Sink[i].id = pdf_document.pages_id}) = 1
        /\ \A i \in ObjectsOf("pages") : Sink[i].id = pdf_document.pages_id
        /\ \A i \in ObjectsOf("page") :
               \E j \in ObjectsOf("pages") : Sink[j].id = Sink[i].body.parent

\* C4: in a finished output the object count of the trailer equals the number
\* of object ids issued during the run.
C4_TrailerSizeIsIssuedCount ==
    pc = "finished" => output.size = Cardinality(IssuedIds)

\* A finished output that holds a text, an image, an image-draw and a page
\* object besides the pages root and the catalog.
C4_Witness ==
    /\ pc = "finished"
    /\ \A kind \in {"text", "image", "draw", "page", "pages", "catalog"} :
           ObjectsOf(kind) # {}
    /\ output.size = Len(Sink) + 1

\* C5: the document rId4, page break, rId5 gives exactly two page objects,
\* each with exactly one image resource, and a pages root whose count is 2.
C5_TwoImagesTwoPages ==
    pc = "finished" =>
        /\ Cardinality(ObjectsOf("page")) = 2
        /\ \A i \in ObjectsOf("page") : Len(Sink[i].body.xobjects) = 1
        /\ \A i \in ObjectsOf("pages") : Sink[i].body.count = 2
        /\ ObjectsOf("pages") # {}

\* The two-image document walked to its end and finished, both images found.
C5_Witness ==
    /\ pc = "finished"
    /\ input = "two_images"
    /\ walk.seen_rid = {"rId4", "rId5"}
    /\ Cardinality(ObjectsOf("image")) = 2

\* The lists still pending when the reader reports the end of input.
PendingAtEof == walk.current_page_objs # <<>> \/ walk.current_page_img_objs # <<>>

\* C6: at end of input one final page object is emitted exactly when a pending
\* list is not empty, and none when both are empty.
C6_FinalPageIffPending ==
    [][(pc = "walk" /\ pc' = "walked") =>
          Len(pdf_document'.page_ids) =
              Len(pdf_document.page_ids) + (IF PendingAtEof THEN 1 ELSE 0)]_vars

\* What a turn of the loop leaves of the document and of the pending lists.
Effect(st) ==
    <<st.d, st.w.current_page_objs, st.w.current_page_img_objs, st.err>>

BoundaryMarkers == {<<"w:br", "page">>, <<"w:sectPr", NoAttr>>}

\* C7: at any point of the walk a page-boundary marker read in self-closing
\* form leaves the same page objects and pending lists as the same marker read
\* as a start event followed by its end event.
C7_BoundaryFormsAgree ==
    pc = "walk" =>
        \A m \in BoundaryMarkers :
            LET empty  == Step(Cur, Ev("Empty", m[1], m[2], <<>>), "ok")
                paired == Step(Step(Cur, Ev("Start", m[1], m[2], <<>>), "ok"),
                               EndEvent(m[1]), "ok")
            IN  Effect(empty) = Effect(paired)

\* Whether the reader is between the start marker of a drawing container and
\* its matching end marker.
InsideDrawing == \E i \in DOMAIN open : IsDrawingName(open[i])

\* C8: a text token read between the start marker of a drawing container and
\* its matching end marker is never appended to the paragraph text.
C8_NoTextInsideDrawing ==
    [][(InsideDrawing /\ nread' = nread + 1 /\ last'.type = "Text") =>
          walk'.current_text = walk.current_text]_vars

\* C9: at a paragraph end a text object is requested exactly when the trimmed
\* text is not empty, and the text is empty afterwards.
C9_TextObjectIffNonBlank ==
    [][(pc = "walk" /\ nread' = nread + 1 /\ last' = EndEvent("w:p")) =>
          IF Trim(walk.current_text) # <<>>
          THEN \/ pc' = "error"
               \/ /\ Len(Sink') = Len(Sink) + 1
                  /\ Last(Sink').body.kind = "text"
                  /\ Last(Sink').body.text = EscapeParens(Trim(walk.current_text))
                  /\ walk'.current_page_objs =
                         Append(walk.current_page_objs, Last(Sink').id)
                  /\ walk'.current_text = <<>>
          ELSE /\ pc' = "walk"
               /\ pdf_document' = pdf_document
               /\ walk'.current_page_objs = walk.current_page_objs
               /\ walk'.current_text = <<>>]_vars

\* A paragraph of whitespace has ended and left no text object.
C9_Witness ==
    /\ pc = "walk"
    /\ last = EndEvent("w:p")
    /\ ObjectsOf("text") = {}
    /\ walk.current_text = <<>>
    /\ nread >= 3

\* C10: when the reader reports an error the walk stops with an error.
C10_ReaderErrorStopsWalk ==
    [][(nread' = nread + 1 /\ last'.type = "Err") => pc' = "error"]_vars

\* A turn of the loop that reads an image reference not seen before which
\* cannot be resolved: no relationship, or the image cannot be opened.
UnresolvedReference ==
    /\ pc = "walk"
    /\ nread' = nread + 1
    /\ EndsWithBlip(last'.name)
    /\ last'.attr \notin walk.seen_rid
    /\ media_lookup(last'.attr) = NoPath \/ failure' = "archive"

\* C11: an image reference that cannot be resolved is skipped: no image object
\* is created, the walk goes on and returns no error because of it.
C11_UnresolvedReferenceSkipped ==
    [][UnresolvedReference =>
          /\ pc' = "walk"
          /\ pdf_document' = pdf_document
          /\ walk'.current_page_img_objs = walk.current_page_img_objs]_vars

\* C12: when a builder creation operation returns an error in a turn of the
\* loop, the walker skips that unit and reads on.
C12_BuilderErrorSkipped ==
    [][(pc = "walk" /\ nread' = nread + 1 /\ failure' = "builder") =>
          pc' = "walk"]_vars

\* The tasks that returned Ok and those that returned an error.
Succeeded == {e \in DOMAIN images.tasks : images.tasks[e] = "done"}

\* C13: a failing task never fails the batch: preprocess_images returns a map
\* that holds exactly the entries whose task succeeded.
C13_FailureIsolatedPerEntry ==
    images.result \notin {"idle", "running"} =>
        /\ images.result = "ok"
        /\ {p[1] : p \in images.image_map} = Succeeded

\* C14: no task writes the temp file that holds the output of another task.
C14_TasksWriteDistinctFiles ==
    [][\A f \in DOMAIN images.temp :
          (images.temp[f] # NoFile /\ images'.temp[f] # images.temp[f]) =>
              images'.temp[f].owner = images.temp[f].owner]_vars

\* The ids of the objects of a kind among Sink[from..to], in the order written.
IdsOf(kind, from, to) ==
    LET objs == SelectSeq(SubSeq(Sink, from, to), LAMBDA o : o.body.kind = kind)
    IN  [i \in 1..Len(objs) |-> objs[i].id]

\* The first object written after the page before the page object Sink[i].
PageStart(i) ==
    LET before == {j \in ObjectsOf("page") : j < i}
    IN  IF before = {} THEN 1
        ELSE 1 + CHOOSE j \in before : \A k \in before : k <= j

Distinct(s) == \A i, j \in DOMAIN s : s[i] = s[j] => i = j

\* C15: the contents of every page object are the text streams created for the
\* page, in creation order, followed by its image-draw streams, in creation
\* order.
C15_ContentsTextThenDraw ==
    \A i \in ObjectsOf("page") :
        Sink[i].body.contents
            = IdsOf("text", PageStart(i), i - 1) \o IdsOf("draw", PageStart(i), i - 1)

\* A page whose image was created before its text.
C15_Witness ==
    \E i \in ObjectsOf("page") :
        /\ IdsOf("text", PageStart(i), i - 1) # <<>>
        /\ IdsOf("draw", PageStart(i), i - 1) # <<>>
        /\ IdsOf("draw", PageStart(i), i - 1)[1] < IdsOf("text", PageStart(i), i - 1)[1]

\* C16: the image ids of every page object, and of the pending image list, are
\* pairwise distinct.
C16_ImageNamesDistinct ==
    /\ \A i \in ObjectsOf("page") : Distinct(Sink[i].body.xobjects)
    /\ Distinct(ImageIds(walk.current_page_img_objs))

\* A page object with two image resources.
C16_Witness ==
    \E i \in ObjectsOf("page") : Len(Sink[i].body.xobjects) >= 2

\* C17: the pages root has the number of page objects as count and their ids,
\* in the order written, as kids.
C17_PagesRootListsPages ==
    \A i \in ObjectsOf("pages") :
        /\ Sink[i].body.count = Cardinality(ObjectsOf("page"))
        /\ Sink[i].body.kids = IdsOf("page", 1, Len(Sink))
        /\ Distinct(Sink[i].body.kids)

\* A finished document of two pages.
C17_Witness ==
    /\ pc = "finished"
    /\ Cardinality(ObjectsOf("page")) >= 2
    /\ ObjectsOf("pages") # {}

\* C18: the cross-reference table and the trailer are emitted only when the
\* body of the reserved id has been written.
C18_FinishRejectsUnwrittenReserved ==
    output # NoOutput => MarkerOffsets(pdf_document.pages_id) # {}

\* C19: once finish has run, nothing is reserved, written or finished again:
\* the writer and the trailer stay as finish left them.
C19_FinishIsFinal ==
    [][output # NoOutput =>
          /\ pdf_document' = pdf_document
          /\ output' = output]_vars

\* finish_document has run and written the trailer.
C19_Witness ==
    /\ pc = "finished"
    /\ output # NoOutput
    /\ output.startxref = Writer.pos

\* C20: on a fresh writer the k-th id-issuing call, reserve_object or
\* write_object in any mix, returns id k: the ids start at 1, none is issued
\* twice and none is left out.
C20_IdsIssuedInSequence ==
    /\ \A i \in DOMAIN api.returned : api.returned[i].id = api.returned[i].call
    /\ api.w.next_obj_id = api.calls + 1

\* Three calls that mix reserve_object and write_object have returned.
C20_Witness ==
    /\ Len(api.returned) >= 3
    /\ \E i, j \in DOMAIN api.returned :
           /\ i < j
           /\ api.returned[i].op = "reserve_object"
           /\ api.returned[j].op = "write_object"
    /\ \E i, j \in DOMAIN api.returned :
           /\ i < j
           /\ api.returned[i].op = "write_object"
           /\ api.returned[j].op = "reserve_object"

\* The step that reads a blip with an embed attribute.
BlipStep ==
    /\ pc = "walk"
    /\ nread' = nread + 1
    /\ EndsWithBlip(last'.name)
    /\ last'.attr # NoAttr

\* The number of image objects a document holds.
ImageCount(d) ==
    Cardinality({i \in DOMAIN d.writer.sink : d.writer.sink[i].body.kind = "image"})

\* C21: a relationship id is resolved at its first occurrence only: the step
\* that reads an id already seen creates nothing, every blip step after which
\* the walk goes on leaves its id in the seen set, mapped or not, and there is
\* one image object per seen id that has a mapping.
C21_ReferenceResolvedOnce ==
    /\ [](ImageCount(pdf_document)
            = Cardinality({r \in walk.seen_rid : media_lookup(r) # NoPath}))
    /\ [][BlipStep =>
            /\ last'.attr \in walk.seen_rid =>
                   /\ pdf_document' = pdf_document
                   /\ walk' = walk
            /\ pc' = "walk" => last'.attr \in walk'.seen_rid
            /\ ImageCount(pdf_document') <= ImageCount(pdf_document) + 1]_vars

\* An id that resolved on the first page is read again after the page break.
C21_Witness ==
    /\ nread = 3
    /\ EndsWithBlip(last.name)
    /\ last.attr = "rId4"
    /\ walk.seen_rid = {"rId4"}
    /\ Len(Sink) = 3
    /\ Sink[1].body.kind = "image"
    /\ Sink[3].body.kind = "page"
    /\ walk.current_page_img_objs = <<>>

\* The places (page object, position) where a list of the page objects, its
\* contents or its xobjects, names the id.
References(list, id) ==
    {pk \in UNION {{<<p, k>> : k \in DOMAIN Sink[p].body[list]} : p \in ObjectsOf("page")} :
        Sink[pk[1]].body[list][pk[2]] = id}

\* C22: after a walk that returned Ok every text stream and every image-draw
\* stream is in the contents of exactly one page, once, and every image is a
\* resource of exactly one page, the page that draws it.
C22_PagesPartitionContent ==
    pc \in {"walked", "finished"} =>
        /\ \A i \in ObjectsOf("text") \cup ObjectsOf("draw") :
               Cardinality(References("contents", Sink[i].id)) = 1
        /\ \A i \in ObjectsOf("image") :
               Cardinality(References("xobjects", Sink[i].id)) = 1
        /\ \A i \in ObjectsOf("draw") :
               {pk[1] : pk \in References("contents", Sink[i].id)}
                   = {pk[1] : pk \in References("xobjects", Sink[i].body.ref)}

\* A walk that returned Ok with content on two pages.
C22_Witness ==
    /\ pc = "walked"
    /\ Cardinality({p \in ObjectsOf("page") : Sink[p].body.contents # <<>>}) >= 2

\* The page objects written after Sink[i].
PagesAfter(i) == {p \in ObjectsOf("page") : p > i}

\* The step of the walk that emits a page at a page-break or section marker.
BoundaryStep ==
    /\ pc = "walk"
    /\ pc' = "walk"
    /\ nread' = nread + 1
    /\ Len(pdf_document'.page_ids) = Len(pdf_document.page_ids) + 1

\* The step of the walk that reads the end of a paragraph with text in it.
ParagraphEndStep ==
    /\ pc = "walk"
    /\ pc' = "walk"
    /\ nread' = nread + 1
    /\ last' = EndEvent("w:p")
    /\ Trim(walk.current_text) # <<>>

\* C23: a text object is written at the end of its paragraph and is on the
\* first page emitted after that: a page boundary inside the paragraph emits
\* the page without the text read so far and keeps that text, the end of the
\* paragraph puts its text object in the pending list, and every text object
\* is pending while no page follows it and otherwise is on the first page
\* that follows it and on no other.
C23_TextOnPageAfterParagraphEnd ==
    /\ [](\A i \in ObjectsOf("text") :
             IF PagesAfter(i) = {}
             THEN /\ pc \in {"walk", "error"}
                  /\ \E k \in DOMAIN walk.current_page_objs :
                         walk.current_page_objs[k] = Sink[i].id
             ELSE {pk[1] : pk \in References("contents", Sink[i].id)}
                      = {CHOOSE p \in PagesAfter(i) : \A q \in PagesAfter(i) : p <= q})
    /\ [][/\ BoundaryStep =>
               /\ walk'.current_text = walk.current_text
               /\ Len(pdf_document'.writer.sink) = Len(Sink) + 1
               /\ Last(pdf_document'.writer.sink).body.kind = "page"
               /\ Last(pdf_document'.writer.sink).body.contents
                      = walk.current_page_objs \o DrawIds(walk.current_page_img_objs)
          /\ ParagraphEndStep =>
               /\ Len(pdf_document'.writer.sink) = Len(Sink) + 1
               /\ Last(pdf_document'.writer.sink).body.kind = "text"
               /\ Last(pdf_document'.writer.sink).body.text
                      = EscapeParens(Trim(walk.current_text))
               /\ walk'.current_page_objs
                      = Append(walk.current_page_objs,
                               Last(pdf_document'.writer.sink).id)]_vars

\* A page break was read inside a paragraph after text of that paragraph: the
\* page it closed has no content and the text is still being accumulated.
C23_Witness ==
    /\ pc = "walk"
    /\ last \in PageBreakEvents
    /\ \E k \in DOMAIN open : open[k] = "w:p"
    /\ Trim(walk.current_text) # <<>>
    /\ Sink # <<>>
    /\ Last(Sink).body.kind = "page"
    /\ Last(Sink).body.contents = <<>>

\* C24: in the string literal that new_text_obj emits, whatever the text, the
\* only unescaped ")" is the closing delimiter and the only unescaped "(" the
\* opening one: every parenthesis of the text is escaped.
C24_ParenthesesEscaped ==
    text_call.result = "ok" =>
        LET literal == Literal(text_call.d.writer.sink[1].body)
        IN  /\ Unescaped(literal, ")") = {Len(literal)}
            /\ Unescaped(literal, "(") = {1}

====
